---- MODULE Spec2Model ----
(***************************************************************************)
(* FragilityModel of fragility_curves/fragility_models.py: a registry of   *)
(* fragility curve families (one per component-type prefix) and the        *)
(* evaluation that turns an intensity value into damage state              *)
(* probabilities.                                                          *)
(*                                                                         *)
(* Strings are sequences of one-character strings.  Probabilities are      *)
(* fixed-point integers in units of 1/Scale and are combined with exact    *)
(* integer arithmetic.  The standard normal CDF is tabulated on the grid   *)
(* of arguments the chosen medians, betas and intensity values produce.    *)
(***************************************************************************)
EXTENDS Integers, Sequences, FiniteSets, TLC

VARIABLES name, applicable_compons, fragility_curves, last

vars == <<name, applicable_compons, fragility_curves, last>>

----------------------------------------------------------------------------
(* Bounds and input sets *)

(* longest list_of_states, and longest list_of_median and list_of_beta *)
MaxStates == 2
MaxParams == 2

Names == {"eq"}
Digits == {"1", "2", "4"}
Prefixes == {<<"P">>}
Components == {<<"P">>, <<"P", "4">>, <<"P", "1", "2", "A">>, <<"4", "P">>}
ApplicableLists == {<<<<"P">>>>}
Imts == {"PGA", "PGV"}
States == {"minor", "major"}
Medians == {1, 2}
Betas == {2}
ImtValues == {1, 2}

SeqsUpTo(S, n) == UNION {[1..k -> S] : k \in 0..n}

(* The state labels are interchangeable, so the lists of states enumerated  *)
(* start with the first label.                                              *)
StateLists ==
  {s \in SeqsUpTo(States, MaxStates) : s = <<>> \/ s[1] = "minor"}

(* probability 1.0 in fixed point *)
Scale == 10 * 1000

(* numpy.linspace(0.001, imt_value * 2, 100): number of plot samples *)
PlotSamples == 100

----------------------------------------------------------------------------
(* calculate_state_probability *)

(* ln(v) in units of ln(2)/2, for the intensities and medians enumerated *)
np_log(v) == CASE v = 1 -> 0 [] v = 2 -> 2 [] v = 4 -> 4

(* scipy.stats.norm.cdf at z * ln(2)/2, in units of 1/Scale *)
norm_cdf(z) ==
  CASE z = -4 -> 828  [] z = -3 -> 1492 [] z = -2 -> 2441 [] z = -1 -> 3645
    [] z = 0  -> 5000 [] z = 1  -> 6355 [] z = 2  -> 7559 [] z = 3  -> 8508
    [] z = 4  -> 9172

calculate_state_probability(imt, median, beta) ==
  LET val == (np_log(imt) - np_log(median)) \div beta
  IN  norm_cdf(val)

----------------------------------------------------------------------------
(* A curve family: the insertion-ordered dict state -> parameter dict, as a *)
(* sequence of entries with pairwise distinct states.  keys is the set of   *)
(* keys the parameter dict holds; a field whose key is absent is 0 or "".   *)

EmptyParams(state) ==
  [state |-> state, keys |-> {}, imt |-> "", median |-> 0, beta |-> 0]

IndexOf(fam, state) ==
  IF \E i \in 1..Len(fam) : fam[i].state = state
  THEN CHOOSE i \in 1..Len(fam) : fam[i].state = state
  ELSE 0

(* fam[state] = params: an existing key keeps its position *)
DictSet(fam, state, params) ==
  IF IndexOf(fam, state) = 0
  THEN Append(fam, params)
  ELSE [fam EXCEPT ![IndexOf(fam, state)] = params]

----------------------------------------------------------------------------
(* set_fragility_curves *)

(* a previous family for the prefix left in place instead of being reset *)
NewFamilyKeepsOld(curves, compon_prefix) ==
  IF compon_prefix \in DOMAIN curves THEN curves[compon_prefix] ELSE <<>>

(* self.fragility_curves[compon_prefix] = dict() *)
NewFamily(curves, compon_prefix) == <<>>

StoreFamily(curves, compon_prefix, fam) ==
  [q \in DOMAIN curves \cup {compon_prefix} |->
     IF q = compon_prefix THEN fam ELSE curves[q]]

(* The loop over enumerate(list_of_states), from the 1-based position index. *)
(* A sequence too short for the index raises IndexError at that subscript,  *)
(* after the assignments before it have been made.                          *)
RECURSIVE RegisterFrom(_, _, _, _, _, _)
RegisterFrom(fam, index, imt, list_of_states, list_of_median, list_of_beta) ==
  IF index > Len(list_of_states)
  THEN [fam |-> fam, raised |-> ""]
  ELSE
    LET state == list_of_states[index]
        p1 == [EmptyParams(state) EXCEPT !.keys = {"imt"}, !.imt = imt]
    IN  IF index > Len(list_of_median)
        THEN [fam |-> DictSet(fam, state, p1), raised |-> "IndexError"]
        ELSE
          LET p2 == [p1 EXCEPT !.keys = @ \cup {"median"},
                               !.median = list_of_median[index]]
          IN  IF index > Len(list_of_beta)
              THEN [fam |-> DictSet(fam, state, p2), raised |-> "IndexError"]
              ELSE
                LET p3 == [p2 EXCEPT !.keys = @ \cup {"beta"},
                                     !.beta = list_of_beta[index]]
                IN  RegisterFrom(DictSet(fam, state, p3), index + 1, imt,
                                 list_of_states, list_of_median, list_of_beta)

set_fragility_curves(curves, compon_prefix, imt, list_of_states, list_of_median, list_of_beta) ==
  LET r == RegisterFrom(NewFamily(curves, compon_prefix), 1, imt, list_of_states,
                        list_of_median, list_of_beta)
  IN  [curves |-> StoreFamily(curves, compon_prefix, r.fam), raised |-> r.raised]

----------------------------------------------------------------------------
(* ascertain_damage_probabilities *)

IsDigit(ch) == ch \in Digits

(* only the digits at the end of the identifier removed *)
RECURSIVE StripTrailingDigits(_)
StripTrailingDigits(component) ==
  IF component # <<>> /\ IsDigit(component[Len(component)])
  THEN StripTrailingDigits(SubSeq(component, 1, Len(component) - 1))
  ELSE component

(* "".join([i for i in component if not i.isdigit()]) *)
compon_type(component) == SelectSeq(component, LAMBDA ch : ~IsDigit(ch))

(* the membership test left out *)
IsRegisteredAlways(curves, key) == TRUE

(* compon_type in self.fragility_curves.keys() *)
IsRegistered(curves, key) == key \in DOMAIN curves

(* a read that removes the family from the dict *)
FamilyOfPop(curves, key) ==
  IF key \in DOMAIN curves
  THEN [fam |-> curves[key], raised |-> "",
        curves |-> [q \in DOMAIN curves \ {key} |-> curves[q]]]
  ELSE [fam |-> <<>>, raised |-> "KeyError", curves |-> curves]

(* self.fragility_curves[compon_type]: a subscript read of the dict, which *)
(* raises KeyError for a missing key and leaves the dict as it is          *)
FamilyOf(curves, key) ==
  IF key \in DOMAIN curves
  THEN [fam |-> curves[key], raised |-> "", curves |-> curves]
  ELSE [fam |-> <<>>, raised |-> "KeyError", curves |-> curves]

(* The first loop over the family's states, from position i, acc being      *)
(* state_cdf so far.  A parameter dict without the key subscripted raises   *)
(* KeyError.                                                                *)
RECURSIVE CdfFrom(_, _, _, _, _)
CdfFrom(fam, i, imt_type, imt_value, acc) ==
  IF i > Len(fam)
  THEN [state_cdf |-> acc, raised |-> ""]
  ELSE
    LET p == fam[i] IN
    IF "imt" \notin p.keys
    THEN [state_cdf |-> acc, raised |-> "KeyError"]
    ELSE IF p.imt = imt_type
    THEN IF "median" \notin p.keys \/ "beta" \notin p.keys
         THEN [state_cdf |-> acc, raised |-> "KeyError"]
         ELSE CdfFrom(fam, i + 1, imt_type, imt_value,
                      Append(acc, calculate_state_probability(
                                    imt_value, p.median, p.beta)))
    ELSE CdfFrom(fam, i + 1, imt_type, imt_value, acc)

(* the length test left out *)
ReductionRunsAlways(state_cdf, fam) == TRUE

(* len(state_cdf) == len(self.fragility_curves[compon_type].keys()) *)
ReductionRuns(state_cdf, fam) == Len(state_cdf) = Len(fam)

(* remain_prob left at its value *)
ReduceStepKeepsRemain(remain_prob, cumprob) ==
  [state_prob |-> remain_prob - cumprob, remain_prob |-> remain_prob]

(* a negative state probability replaced by 0 *)
ReduceStepClamps(remain_prob, cumprob) ==
  LET state_prob == IF remain_prob - cumprob < 0 THEN 0 ELSE remain_prob - cumprob
  IN  [state_prob |-> state_prob, remain_prob |-> remain_prob - state_prob]

(* state_prob = remain_prob - cumprob; remain_prob -= state_prob *)
ReduceStep(remain_prob, cumprob) ==
  LET state_prob == remain_prob - cumprob
  IN  [state_prob |-> state_prob, remain_prob |-> remain_prob - state_prob]

RECURSIVE ReduceFrom(_, _, _, _)
ReduceFrom(state_cdf, i, remain_prob, acc) ==
  IF i > Len(state_cdf)
  THEN acc
  ELSE LET s == ReduceStep(remain_prob, state_cdf[i])
       IN  ReduceFrom(state_cdf, i + 1, s.remain_prob, Append(acc, s.state_prob))

(* remain_prob = 1; state_probabilities = []; for cumprob in state_cdf: ... *)
state_probabilities(state_cdf) == ReduceFrom(state_cdf, 1, Scale, <<>>)

(* The plotting block.  Its loop subscripts "median" and "beta" of every    *)
(* state and evaluates the curve at PlotSamples intensities; max(state_cdf) *)
(* raises ValueError for an empty state_cdf.  calls counts the evaluations  *)
(* of calculate_state_probability it made.                                  *)
Plot(fam, state_cdf) ==
  LET bad == {i \in 1..Len(fam) :
                "median" \notin fam[i].keys \/ "beta" \notin fam[i].keys}
  IN  IF bad # {}
      THEN LET first == CHOOSE i \in bad : \A j \in bad : i <= j
           IN  [raised |-> "KeyError", calls |-> (first - 1) * PlotSamples]
      ELSE IF state_cdf = <<>>
      THEN [raised |-> "ValueError", calls |-> Len(fam) * PlotSamples]
      ELSE [raised |-> "", calls |-> Len(fam) * PlotSamples]

(* What a call did.  kind is "vector" (vec is returned), "none" (None is    *)
(* returned) or "error" (raised names the exception); compon_type is the    *)
(* lookup key derived, state_cdf the exceedance values computed, plotted    *)
(* the number of curve evaluations of the plotting block, curves the dict   *)
(* of families when the call ends.                                          *)
Outcome(kind, vec, raised, key, state_cdf, plotted, curves) ==
  [kind |-> kind, vec |-> vec, raised |-> raised, compon_type |-> key,
   state_cdf |-> state_cdf, plotted |-> plotted, curves |-> curves]

(* From the length test on: the reduction, the plotting block, the return.  *)
(* state_probabilities is bound only when the reduction ran.                *)
ReduceAndPlot(key, look, c, plotting) ==
  LET pl == IF plotting THEN Plot(look.fam, c.state_cdf)
            ELSE [raised |-> "", calls |-> 0]
  IN  IF pl.raised # ""
      THEN Outcome("error", <<>>, pl.raised, key, c.state_cdf, pl.calls, look.curves)
      ELSE IF ~ReductionRuns(c.state_cdf, look.fam)
      THEN Outcome("error", <<>>, "UnboundLocalError", key, c.state_cdf, pl.calls,
                   look.curves)
      ELSE Outcome("vector", state_probabilities(c.state_cdf), "", key, c.state_cdf,
                   pl.calls, look.curves)

(* The body of "if compon_type in self.fragility_curves.keys()" *)
Evaluate(key, look, imt_type, imt_value, plotting) ==
  IF look.raised # ""
  THEN Outcome("error", <<>>, look.raised, key, <<>>, 0, look.curves)
  ELSE LET c == CdfFrom(look.fam, 1, imt_type, imt_value, <<>>)
       IN  IF c.raised # ""
           THEN Outcome("error", <<>>, c.raised, key, c.state_cdf, 0, look.curves)
           ELSE ReduceAndPlot(key, look, c, plotting)

ascertain_damage_probabilities(curves, component, imt_type, imt_value, plotting) ==
  LET key == compon_type(component)
  IN  IF ~IsRegistered(curves, key)
      THEN Outcome("none", <<>>, "", key, <<>>, 0, curves)
      ELSE Evaluate(key, FamilyOf(curves, key), imt_type, imt_value, plotting)

(* what the caller observes of a call *)
Result(o) == [kind |-> o.kind, vec |-> o.vec, raised |-> o.raised]

----------------------------------------------------------------------------
(* The state machine.  last records the most recent call and its outcome.   *)

NoOutcome == Outcome("", <<>>, "", <<>>, <<>>, 0, <<>>)

Call(op, target, imt, list_of_states, list_of_median, list_of_beta, imt_value, plotting, raised, out) ==
  [op |-> op, target |-> target, imt |-> imt, list_of_states |-> list_of_states,
   list_of_median |-> list_of_median, list_of_beta |-> list_of_beta,
   imt_value |-> imt_value, plotting |-> plotting, raised |-> raised, out |-> out]

(* __init__ *)
Init ==
  /\ name \in Names
  /\ applicable_compons = [set |-> FALSE, value |-> <<>>]
  /\ fragility_curves = <<>>
  /\ last = Call("__init__", <<>>, "", <<>>, <<>>, <<>>, 0, FALSE, "", NoOutcome)

SetApplicableCompons ==
  \E a \in ApplicableLists :
    /\ applicable_compons' = [set |-> TRUE, value |-> a]
    /\ last' = Call("set_applicable_compons", <<>>, "", <<>>, <<>>, <<>>, 0, FALSE,
                    "", NoOutcome)
    /\ UNCHANGED <<name, fragility_curves>>

SetFragilityCurves ==
  \E compon_prefix \in Prefixes, imt \in Imts,
     list_of_states \in StateLists,
     list_of_median \in SeqsUpTo(Medians, MaxParams),
     list_of_beta \in SeqsUpTo(Betas, MaxParams) :
    \E r \in {set_fragility_curves(fragility_curves, compon_prefix, imt,
                                    list_of_states, list_of_median, list_of_beta)} :
        /\ fragility_curves' = r.curves
        /\ last' = Call("set_fragility_curves", compon_prefix, imt, list_of_states,
                        list_of_median, list_of_beta, 0, FALSE, r.raised, NoOutcome)
        /\ UNCHANGED <<name, applicable_compons>>

AscertainDamageProbabilities ==
  \E component \in Components, imt_type \in Imts, imt_value \in ImtValues,
     plotting \in BOOLEAN :
    \E o \in {ascertain_damage_probabilities(fragility_curves, component,
                                              imt_type, imt_value, plotting)} :
        /\ fragility_curves' = o.curves
        /\ last' = Call("ascertain_damage_probabilities", component, imt_type,
                        <<>>, <<>>, <<>>, imt_value, plotting, o.raised, o)
        /\ UNCHANGED <<name, applicable_compons>>

Next ==
  \/ SetApplicableCompons
  \/ SetFragilityCurves
  \/ AscertainDamageProbabilities

Spec == Init /\ [][Next]_vars

----------------------------------------------------------------------------
(* Properties.  last.target is the compon_prefix of a registration and the  *)
(* component of an evaluation.                                              *)

IsSetCurves == last.op = "set_fragility_curves"
IsAscertain == last.op = "ascertain_damage_probabilities"

AllKeys == {"imt", "median", "beta"}

(* every state of the family holds its three parameters *)
Complete(fam) == \A i \in 1..Len(fam) : fam[i].keys = AllKeys

Distinct(seq) == \A i, j \in 1..Len(seq) : seq[i] = seq[j] => i = j

(* the family the last evaluation looked up *)
KeyOfLast == last.out.compon_type
HasFamilyOfLast == IsAscertain /\ KeyOfLast \in DOMAIN fragility_curves
FamilyOfLast == fragility_curves[KeyOfLast]

(* e_i: the exceedance probability of the i-th state at the intensity of    *)
(* the last evaluation                                                      *)
Exceedance(i) ==
  calculate_state_probability(last.imt_value, FamilyOfLast[i].median,
                              FamilyOfLast[i].beta)

(* a family registered with k >= 1 states, evaluated with its own imt *)
MatchedEvaluation ==
  /\ HasFamilyOfLast
  /\ Len(FamilyOfLast) >= 1
  /\ Complete(FamilyOfLast)
  /\ \A i \in 1..Len(FamilyOfLast) : FamilyOfLast[i].imt = last.imt

(* a family registered with k >= 1 states, evaluated with another imt *)
MismatchedEvaluation ==
  /\ HasFamilyOfLast
  /\ Len(FamilyOfLast) >= 1
  /\ \A i \in 1..Len(FamilyOfLast) : FamilyOfLast[i].imt # last.imt

(* C1: for a family registered with k >= 1 states and an evaluation whose   *)
(* imt_type is the family's imt, the returned vector has k entries in       *)
(* family order, the first 1 - e_1 and the i-th e_(i-1) - e_i.              *)
C1_StateProbabilities ==
  MatchedEvaluation =>
    /\ last.out.kind = "vector"
    /\ Len(last.out.vec) = Len(FamilyOfLast)
    /\ last.out.vec[1] = Scale - Exceedance(1)
    /\ \A i \in 2..Len(FamilyOfLast) :
         last.out.vec[i] = Exceedance(i - 1) - Exceedance(i)

C1_Witness ==
  /\ MatchedEvaluation
  /\ Len(FamilyOfLast) = 2
  /\ last.out.kind = "vector"
  /\ Exceedance(1) # Exceedance(2)

(* C2: an evaluation of a registered family with an imt_type other than the *)
(* family's imt ends with no result or an error and never returns a vector; *)
(* no exceedance value is computed and the reduction does not run, with     *)
(* plotting on and with plotting off.                                       *)
C2_MismatchGivesNoVector ==
  MismatchedEvaluation =>
    /\ last.out.kind \in {"none", "error"}
    /\ last.out.vec = <<>>
    /\ last.out.state_cdf = <<>>

C2_Witness ==
  /\ MismatchedEvaluation
  /\ Complete(FamilyOfLast)
  /\ ~last.plotting
  /\ last.out.kind = "error"

(* C3: a registration that fails leaves the curve families exactly as they  *)
(* were before the call.                                                    *)
C3_FailedRegistrationChangesNothing ==
  [][(last'.op = "set_fragility_curves" /\ last'.raised # "")
       => fragility_curves' = fragility_curves]_vars

(* the family the last registration describes: one entry per index *)
RegisteredFamily ==
  [i \in 1..Len(last.list_of_states) |->
     [state |-> last.list_of_states[i], keys |-> AllKeys, imt |-> last.imt,
      median |-> last.list_of_median[i], beta |-> last.list_of_beta[i]]]

EqualLengths ==
  /\ Len(last.list_of_median) = Len(last.list_of_states)
  /\ Len(last.list_of_beta) = Len(last.list_of_states)

(* C4 as stated: after a registration with three sequences of equal length  *)
(* k, the family of the prefix is exactly the k entries                     *)
(* states[i] -> (imt, medians[i], betas[i]) in the order of states.         *)
C4_FamilyIsOneEntryPerIndex ==
  (IsSetCurves /\ EqualLengths) =>
    /\ last.raised = ""
    /\ last.target \in DOMAIN fragility_curves
    /\ fragility_curves[last.target] = RegisteredFamily

(* C4 amended: the same, for pairwise distinct states.                      *)
C4_FamilyIsOneEntryPerDistinctState ==
  (IsSetCurves /\ EqualLengths /\ Distinct(last.list_of_states)) =>
    /\ last.raised = ""
    /\ last.target \in DOMAIN fragility_curves
    /\ fragility_curves[last.target] = RegisteredFamily

C4_Witness ==
  /\ IsSetCurves
  /\ EqualLengths
  /\ Distinct(last.list_of_states)
  /\ Len(last.list_of_states) = 2
  /\ Len(fragility_curves[last.target]) = 2

(* C5: an evaluation leaves the name, the applicable components and every   *)
(* curve family as they were, whatever its outcome.                         *)
C5_EvaluationIsReadOnly ==
  [][last'.op = "ascertain_damage_probabilities"
       => UNCHANGED <<name, applicable_compons, fragility_curves>>]_vars

C5_Witness ==
  /\ HasFamilyOfLast
  /\ Len(FamilyOfLast) = 2
  /\ last.out.kind = "vector"

(* C6: in every reachable state and for every component, imt_type and       *)
(* imt_value, the evaluation with plotting on and the one with plotting off *)
(* have the same outcome.                                                   *)
C6_PlottingHasNoEffect ==
  \A component \in Components, imt_type \in Imts, imt_value \in ImtValues :
    Result(ascertain_damage_probabilities(fragility_curves, component, imt_type,
                                          imt_value, TRUE))
      = Result(ascertain_damage_probabilities(fragility_curves, component, imt_type,
                                              imt_value, FALSE))

(* the running remaining value before step i *)
RemainingBefore(state_cdf, i) == IF i = 1 THEN Scale ELSE state_cdf[i - 1]

Ordered(state_cdf) ==
  /\ \A i \in 1..Len(state_cdf) : 0 <= state_cdf[i] /\ state_cdf[i] <= Scale
  /\ \A i \in 2..Len(state_cdf) : state_cdf[i - 1] >= state_cdf[i]

(* C7: in a returned vector, entry i is negative exactly when e_i exceeds   *)
(* the running remaining value (1 for i = 1, e_(i-1) otherwise); so every   *)
(* entry is non-negative when the exceedance values are ordered.            *)
C7_NegativeExactlyWhenUnordered ==
  (IsAscertain /\ last.out.kind = "vector") =>
    /\ Len(last.out.vec) = Len(last.out.state_cdf)
    /\ \A i \in 1..Len(last.out.state_cdf) :
         (i <= Len(last.out.vec) /\ last.out.vec[i] < 0)
           <=> last.out.state_cdf[i] > RemainingBefore(last.out.state_cdf, i)
    /\ Ordered(last.out.state_cdf)
         => \A i \in 1..Len(last.out.vec) : last.out.vec[i] >= 0

C7_Witness ==
  /\ IsAscertain
  /\ last.out.kind = "vector"
  /\ Len(last.out.vec) = 2
  /\ last.out.state_cdf[2] > last.out.state_cdf[1]
  /\ last.out.vec[2] < 0

(* C8: an evaluation whose derived key has no registered family returns no  *)
(* result, neither a vector nor a failure, and computes no exceedance       *)
(* value, whatever imt_type, imt_value and the plotting flag are.           *)
C8_UnregisteredGivesNone ==
  (IsAscertain /\ KeyOfLast \notin DOMAIN fragility_curves) =>
    /\ last.out.kind = "none"
    /\ last.out.vec = <<>>
    /\ last.out.raised = ""
    /\ last.out.state_cdf = <<>>
    /\ last.out.plotted = 0

C8_Witness ==
  /\ IsAscertain
  /\ KeyOfLast \notin DOMAIN fragility_curves
  /\ fragility_curves # <<>>
  /\ last.plotting
  /\ last.out.kind = "none"

(* the identifier without its digit characters, the others in their order *)
RECURSIVE NonDigits(_)
NonDigits(component) ==
  IF component = <<>> THEN <<>>
  ELSE IF Head(component) \in Digits THEN NonDigits(Tail(component))
  ELSE <<Head(component)>> \o NonDigits(Tail(component))

(* C9: the lookup key is the component identifier with every digit removed  *)
(* and every other character kept in order ("P4", "P" and "P12A" give "P",  *)
(* "P" and "PA"); two identifiers that differ only in digits are evaluated  *)
(* against the same family.                                                 *)
C9_KeyStripsDigits ==
  IsAscertain =>
    /\ KeyOfLast = NonDigits(last.target)
    /\ last.target = <<"P", "4">> => KeyOfLast = <<"P">>
    /\ last.target = <<"P">> => KeyOfLast = <<"P">>
    /\ last.target = <<"P", "1", "2", "A">> => KeyOfLast = <<"P", "A">>
    /\ \A other \in Components :
         NonDigits(other) = NonDigits(last.target) =>
           ascertain_damage_probabilities(fragility_curves, other, last.imt,
                                          last.imt_value, last.plotting) = last.out

C9_Witness ==
  /\ IsAscertain
  /\ last.target = <<"4", "P">>
  /\ KeyOfLast = <<"P">>
  /\ last.out.kind = "vector"

(* C10: all states of a registered family carry the same imt, and an        *)
(* evaluation computes either no exceedance value or one for every state of *)
(* the family.                                                              *)
C10_AllOrNothing ==
  /\ \A key \in DOMAIN fragility_curves :
       \A i, j \in 1..Len(fragility_curves[key]) :
         fragility_curves[key][i].imt = fragility_curves[key][j].imt
  /\ HasFamilyOfLast =>
       Len(last.out.state_cdf) \in {0, Len(FamilyOfLast)}

====
